---- MODULE Spec2Model ----
(***************************************************************************)
(* A model of fce_dedalus: the statistics loader load_tt, the polytropic   *)
(* atmosphere classes, the state rescaler tt_to_ft and the orchestration   *)
(* of tt_to_ft_preliminaries over MPI ranks.                               *)
(*                                                                         *)
(* Floating point numbers are modelled as exact rationals [n, d]; the      *)
(* transcendental exp() of the polytrope is kept symbolic.                 *)
(***************************************************************************)
EXTENDS Integers, Sequences, FiniteSets, TLC

VARIABLES
    \* ---- load_tt ----
    fs,                 \* the TT run directory: sub-directories and their *.h5 files
    avg_time,           \* argument avg_time of load_tt
    Lz,                 \* argument Lz of load_tt
    loadOut,            \* outcome of the call of load_tt (pending / ok / error)
    \* ---- atmospheres ----
    atmosphere_params,  \* IdealGasAtmosphere.atmosphere_params, the class attribute
    instances,          \* the atmosphere objects constructed so far
    ctor,               \* outcome of the latest constructor call
    problem,            \* problem.parameters of the latest build_atmosphere
    \* ---- tt_to_ft ----
    rescaleIn,          \* arguments of tt_to_ft, the domain and the checkpoint file
    state,              \* solver.state: the local grid data of the fields
    dt,                 \* the local variable dt of tt_to_ft
    rpc,                \* position of the process in tt_to_ft
    \* ---- tt_to_ft_preliminaries ----
    prelimIn,           \* arguments: the atmosphere, path (its directory) and time
    ppc,                \* position of every rank in tt_to_ft_preliminaries
    plocal,             \* the six local variables of every rank
    published,          \* what the root has sent in each of the six broadcasts
    calls,              \* number of calls of load_tt and structure_bvp by every rank
    obtained,           \* what rank 0 got back from load_tt and structure_bvp
    loaded,             \* the locals profiles and scalars of rank 0
    newton              \* the Newton solver of structure_bvp on rank 0

varsLoad == <<fs, avg_time, Lz, loadOut>>
varsAtmo == <<atmosphere_params, instances, ctor, problem>>
varsRescale == <<rescaleIn, state, dt, rpc>>
varsPrelim == <<prelimIn, ppc, plocal, published, calls, obtained, loaded, newton>>
vars == <<varsLoad, varsAtmo, varsRescale, varsPrelim>>

(***************************************************************************)
(* Bounds of the model.                                                    *)
(***************************************************************************)
MaxFiles == 2
MaxAvg == 3
MaxInstances == 2
Nx == 2
NzTT == 2
NProcs == 2
MaxNewton == 2

(***************************************************************************)
(* Exact rational arithmetic standing for Python / NumPy floats.           *)
(***************************************************************************)
Abs(x) == IF x < 0 THEN -x ELSE x

RECURSIVE GCD(_, _)
GCD(a, b) == IF b = 0 THEN a ELSE GCD(b, a % b)

\* A float that is not finite (nan, inf): what NumPy leaves after a division
\* by zero, and what any arithmetic on it gives again.
NaN == [n |-> 0, d |-> 0]

Rat(n, d) ==
    IF d = 0 THEN NaN
    ELSE LET g == GCD(Abs(n), Abs(d))
             s == IF d < 0 THEN -1 ELSE 1
         IN [n |-> (s * n) \div g, d |-> (s * d) \div g]

RInt(k) == [n |-> k, d |-> 1]
RAdd(a, b) == Rat(a.n * b.d + b.n * a.d, a.d * b.d)
RSub(a, b) == Rat(a.n * b.d - b.n * a.d, a.d * b.d)
RMul(a, b) == Rat(a.n * b.n, a.d * b.d)
RDiv(a, b) == Rat(a.n * b.d, a.d * b.n)
RNeg(a) == [n |-> -a.n, d |-> a.d]
RIsZero(a) == a.d # 0 /\ a.n = 0
\* a comparison with nan is False
RLess(a, b) == a.d # 0 /\ b.d # 0 /\ a.n * b.d < b.n * a.d
RLeq(a, b) == a.d # 0 /\ b.d # 0 /\ a.n * b.d <= b.n * a.d

RECURSIVE SumSeq(_)
SumSeq(s) == IF s = <<>> THEN 0 ELSE Head(s) + SumSeq(Tail(s))

(***************************************************************************)
(* File names.  A Dedalus output file is called <set>_s<N>.h5; the model   *)
(* keeps the decimal digits of <N> as the name and parses them as int().   *)
(***************************************************************************)
DigitsOf(k) == IF k < 10 THEN <<k>> ELSE <<k \div 10, k % 10>>

RECURSIVE ParseInt(_)
ParseInt(ds) ==
    IF ds = <<>> THEN 0
    ELSE 10 * ParseInt(SubSeq(ds, 1, Len(ds) - 1)) + ds[Len(ds)]

file_num(f) == ParseInt(f.name)

RECURSIVE Insert(_, _)
Insert(f, sorted) ==
    IF sorted = <<>> THEN <<f>>
    ELSE IF file_num(f) < file_num(Head(sorted)) THEN <<f>> \o sorted
    ELSE <<Head(sorted)>> \o Insert(f, Tail(sorted))

RECURSIVE SortByNum(_)
SortByNum(f_list) ==
    IF f_list = <<>> THEN <<>> ELSE Insert(Head(f_list), SortByNum(Tail(f_list)))

\* sort_file_list: zip(*sorted(...)) cannot be unpacked for an empty list,
\* so the call raises ValueError; otherwise the files sorted by write index.
sort_file_list(f_list) ==
    IF f_list = <<>> THEN [raised |-> TRUE, val |-> <<>>]
    ELSE [raised |-> FALSE, val |-> SortByNum(f_list)]

(***************************************************************************)
(* Contents of the output files.  Samples are written at sim_time 1, 2, .. *)
(* and the task values are fixed functions of the sim_time.                *)
(***************************************************************************)
Writes == {1, 2}            \* number of writes held by one file
Bases == {1, 9}             \* write index of the oldest file of a set
LzValues == {1, 2}

NuAt(t) == 1 + ((t * t) % 3)
SAt(t) == 1 + (t % 2)
T1At(t) == [z \in 1..NzTT |-> (t + z) % 3]
UdotGradwAt(t) == [z \in 1..NzTT |-> 1 + ((t * z) % 2)]

Shapes == UNION {[1..k -> Writes] : k \in 0..MaxFiles}

FirstTime(shape, k) == 1 + SumSeq(SubSeq(shape, 1, k - 1))
TimesOf(shape, k) == [s \in 1..shape[k] |-> FirstTime(shape, k) + s - 1]

ScalarFile(base, shape, k) ==
    LET ts == TimesOf(shape, k)
    IN [name |-> DigitsOf(base + k - 1),
        sim_time |-> ts,
        tasks |-> [Nu |-> [s \in 1..Len(ts) |-> NuAt(ts[s])],
                   s_over_cp_z |-> [s \in 1..Len(ts) |-> SAt(ts[s])]]]

ProfileFile(base, shape, k) ==
    LET ts == TimesOf(shape, k)
    IN [name |-> DigitsOf(base + k - 1),
        sim_time |-> ts,
        nz |-> NzTT,
        tasks |-> [UdotGradw |-> [s \in 1..Len(ts) |-> UdotGradwAt(ts[s])],
                   T1 |-> [s \in 1..Len(ts) |-> T1At(ts[s])]]]

CheckFile(base, k) == [name |-> DigitsOf(base + k - 1)]

\* glob.glob returns the files in arbitrary order: ascending or reversed here.
Reverse(s) == [k \in 1..Len(s) |-> s[Len(s) + 1 - k]]
GlobOrder(rev, s) == IF rev THEN Reverse(s) ELSE s

Directory(base, rev, shapeS, shapeP, final_exists, nFinal, nCheck) ==
    [sub_dirs |-> {"checkpoint", "scalar", "profiles"}
                    \cup (IF final_exists THEN {"final_checkpoint"} ELSE {}),
     final_checkpoint |-> GlobOrder(rev, [k \in 1..nFinal |-> CheckFile(base, k)]),
     checkpoint |-> GlobOrder(rev, [k \in 1..nCheck |-> CheckFile(base, k)]),
     scalar |-> GlobOrder(rev, [k \in 1..Len(shapeS) |-> ScalarFile(base, shapeS, k)]),
     profiles |-> GlobOrder(rev, [k \in 1..Len(shapeP) |-> ProfileFile(base, shapeP, k)])]

Directories ==
    {Directory(base, rev, shapeS, shapeP, TRUE, nf, nc) :
        base \in Bases, rev \in BOOLEAN, shapeS \in Shapes, shapeP \in Shapes,
        nf \in {0, 2}, nc \in {0, 2}}
    \cup
    {Directory(base, rev, shapeS, shapeP, FALSE, 0, nc) :
        base \in Bases, rev \in BOOLEAN, shapeS \in Shapes, shapeP \in Shapes,
        nc \in {0, 2}}

(***************************************************************************)
(* load_tt                                                                 *)
(***************************************************************************)
None == <<>>
Some(v) == <<v>>

\* A variant that falls back on checkpoint/ when final_checkpoint/ is empty.
checkpoint_list_fallback(dir) ==
    IF "final_checkpoint" \in dir.sub_dirs /\ dir.final_checkpoint # <<>>
    THEN dir.final_checkpoint
    ELSE dir.checkpoint

\* The directory the checkpoint is taken from (lines 41-46).
checkpoint_list(dir) ==
    IF "final_checkpoint" \in dir.sub_dirs THEN dir.final_checkpoint
    ELSE dir.checkpoint

\* Python's f_list[-(j+1)]: IndexError when j+1 > len(f_list).
NegIndexRaises(f_list, j) == j + 1 > Len(f_list)
NegIndex(f_list, j) == f_list[Len(f_list) - j]

\* One pass of the inner loop "for j in range(len(scalar_files))" for list i
\* (1 = scalar, 2 = profile), from iteration j on.  st holds the locals
\* good_files[i], n_writes[i], end_times[i], nz and whether an exception left
\* the loop.
RECURSIVE select_files(_, _, _, _, _, _)
select_files(i, j, scalar_files, profile_files, time, st) ==
    LET f_list == IF i = 1 THEN scalar_files ELSE profile_files
    IN IF j >= Len(scalar_files) THEN st
       ELSE IF NegIndexRaises(f_list, j) THEN [st EXCEPT !.raised = TRUE]
       ELSE LET this_file == NegIndex(f_list, j)
                sim_times == this_file.sim_time
                end_time == IF st.end_time = None THEN sim_times[Len(sim_times)]
                            ELSE st.end_time[1]
                st2 == [good_files |-> Append(st.good_files, this_file),
                        n_writes |-> st.n_writes + Len(sim_times),
                        end_time |-> Some(end_time),
                        nz |-> IF i = 2 /\ j = 0 THEN Some(this_file.nz) ELSE st.nz,
                        raised |-> FALSE]
            IN IF end_time - sim_times[1] > time THEN st2
               ELSE select_files(i, j + 1, scalar_files, profile_files, time, st2)

SelectInit == [good_files |-> <<>>, n_writes |-> 0, end_time |-> None,
               nz |-> None, raised |-> FALSE]

\* work[i:i+N] = vals  (i counted from 0)
SliceAssign(work, i, N, vals) ==
    [k \in 1..Len(work) |-> IF k > i /\ k <= i + N THEN vals[k - i] ELSE work[k]]

\* A variant of the copy loop that leaves out "i += N".
RECURSIVE fill_work_no_advance(_, _, _, _)
fill_work_no_advance(work, files, key, i) ==
    IF files = <<>> THEN work
    ELSE LET f == Head(files)
             N == Len(f.sim_time)
         IN fill_work_no_advance(SliceAssign(work, i, N, f.tasks[key]), Tail(files), key, i)

\* The loop over the good files that copies the task sk into the work field.
RECURSIVE fill_work(_, _, _, _)
fill_work(work, files, key, i) ==
    IF files = <<>> THEN work
    ELSE LET f == Head(files)
             N == Len(f.sim_time)
         IN fill_work(SliceAssign(work, i, N, f.tasks[key]), Tail(files), key, i + N)

\* np.mean of a 1-D array
np_mean(work) == Rat(SumSeq(work), Len(work))

\* np.mean(work, axis=0) of an (n_writes, nz) array
np_mean_axis0(work, nz) ==
    [z \in 1..nz |-> Rat(SumSeq([r \in 1..Len(work) |-> work[r][z]]), Len(work))]

\* scalars['s_over_cp_z'] *= Lz
times_Lz(mean, depth) == RMul(mean, RInt(depth))

LoadError(kind) ==
    [status |-> "error", err |-> kind, checkpoint_TT |-> <<>>,
     good_scalar_files |-> <<>>, good_profile_files |-> <<>>,
     scalars |-> <<>>, profiles |-> <<>>]

LoadPending == [LoadError("") EXCEPT !.status = "pending"]

Names(files) == [k \in 1..Len(files) |-> files[k].name]

load_tt(dir, time, depth) ==
    LET checks == sort_file_list(checkpoint_list(dir))
        scalar_files == sort_file_list(dir.scalar)
        profile_files == sort_file_list(dir.profiles)
    IN IF checks.raised \/ scalar_files.raised \/ profile_files.raised
       THEN LoadError("ValueError")
       ELSE
       LET checkpoint_TT == checks.val[Len(checks.val)]
           sel1 == select_files(1, 0, scalar_files.val, profile_files.val, time, SelectInit)
           sel2 == select_files(2, 0, scalar_files.val, profile_files.val, time, SelectInit)
       IN IF sel1.raised \/ sel2.raised THEN LoadError("IndexError")
          ELSE
          LET good_scalar_files == sort_file_list(sel1.good_files).val
              good_profile_files == sort_file_list(sel2.good_files).val
              nz == sel2.nz[1]
              scalar_work0 == [k \in 1..sel1.n_writes |-> 0]
              profile_work0 == [k \in 1..sel2.n_writes |-> [z \in 1..nz |-> 0]]
              scalar_work1 == fill_work(scalar_work0, good_scalar_files, "Nu", 0)
              scalar_work2 == fill_work(scalar_work1, good_scalar_files, "s_over_cp_z", 0)
              profile_work1 == fill_work(profile_work0, good_profile_files, "UdotGradw", 0)
              profile_work2 == fill_work(profile_work1, good_profile_files, "T1", 0)
          IN [status |-> "ok", err |-> "",
              checkpoint_TT |-> checkpoint_TT.name,
              good_scalar_files |-> Names(good_scalar_files),
              good_profile_files |-> Names(good_profile_files),
              scalars |-> [Nu |-> np_mean(scalar_work1),
                           s_over_cp_z |-> times_Lz(np_mean(scalar_work2), depth)],
              profiles |-> [UdotGradw |-> np_mean_axis0(profile_work1, nz),
                            T1 |-> np_mean_axis0(profile_work2, nz)]]

InitLoad ==
    /\ fs \in Directories
    /\ avg_time \in 0..MaxAvg
    /\ Lz \in LzValues
    /\ loadOut = LoadPending

\* A call load_tt(path, avg_time, Lz) on the directory.
CallLoadTT ==
    /\ loadOut.status = "pending"
    /\ loadOut' = load_tt(fs, avg_time, Lz)
    /\ UNCHANGED <<fs, avg_time, Lz, varsAtmo, varsRescale, varsPrelim>>

NextLoad == CallLoadTT



(***************************************************************************)
(* Properties of load_tt.                                                  *)
(***************************************************************************)
Returned == loadOut.status = "ok"
Called == loadOut.status # "pending"

\* The files of f_list that are among its k newest (largest write index).
NewestNames(f_list, k) ==
    {f_list[a].name : a \in {a \in 1..Len(f_list) :
        Cardinality({b \in 1..Len(f_list) : file_num(f_list[b]) > file_num(f_list[a])}) < k}}

NewestFile(f_list) ==
    CHOOSE f \in {f_list[a] : a \in 1..Len(f_list)} :
        \A b \in 1..Len(f_list) : file_num(f_list[b]) <= file_num(f)

KthNewest(f_list, k) ==
    CHOOSE f \in {f_list[a] : a \in 1..Len(f_list)} :
        Cardinality({b \in 1..Len(f_list) : file_num(f_list[b]) > file_num(f)}) = k - 1

\* (last sim_time of the newest file) - (first sim_time of the k-th newest file)
SpanOf(f_list, k) ==
    LET new == NewestFile(f_list)
    IN new.sim_time[Len(new.sim_time)] - KthNewest(f_list, k).sim_time[1]

\* The smallest k whose span reaches the duration, or all the files.
WindowCount(f_list, time) ==
    LET reach == {k \in 1..Len(f_list) : SpanOf(f_list, k) >= time}
    IN IF reach = {} THEN Len(f_list)
       ELSE CHOOSE k \in reach : \A k2 \in reach : k <= k2

SeqToSet(q) == {q[a] : a \in 1..Len(q)}

\* C2: for the scalar list and for the profile list independently, the
\* selected files are the k newest files of the list, k the smallest count
\* whose span is >= avg_time, or all the files of the list.
C2_WindowIsMinimal ==
    Returned =>
        /\ SeqToSet(loadOut.good_scalar_files)
             = NewestNames(fs.scalar, WindowCount(fs.scalar, avg_time))
        /\ SeqToSet(loadOut.good_profile_files)
             = NewestNames(fs.profiles, WindowCount(fs.profiles, avg_time))

FileNamed(f_list, name) == CHOOSE f \in SeqToSet(f_list) : f.name = name

RECURSIVE TotalOver(_, _, _, _)
TotalOver(f_list, names, key, z) ==
    IF names = {} THEN 0
    ELSE LET nm == CHOOSE x \in names : TRUE
             f == FileNamed(f_list, nm)
             vals == f.tasks[key]
             here == IF z = 0 THEN SumSeq(vals)
                     ELSE SumSeq([w \in 1..Len(vals) |-> vals[w][z]])
         IN here + TotalOver(f_list, names \ {nm}, key, z)

RECURSIVE CountOver(_, _)
CountOver(f_list, names) ==
    IF names = {} THEN 0
    ELSE LET nm == CHOOSE x \in names : TRUE
         IN Len(FileNamed(f_list, nm).sim_time) + CountOver(f_list, names \ {nm})

\* a rational q equals total / count
IsQuotient(q, total, count) == q.n * count = total * q.d /\ q.d > 0

\* C3: every average load_tt returns is the arithmetic mean over all samples
\* of the selected files; s_over_cp_z is that mean times Lz, once.
C3_MeanOfSelected ==
    Returned =>
        LET sn == SeqToSet(loadOut.good_scalar_files)
            pn == SeqToSet(loadOut.good_profile_files)
        IN /\ IsQuotient(loadOut.scalars.Nu,
                         TotalOver(fs.scalar, sn, "Nu", 0), CountOver(fs.scalar, sn))
           /\ IsQuotient(loadOut.scalars.s_over_cp_z,
                         Lz * TotalOver(fs.scalar, sn, "s_over_cp_z", 0),
                         CountOver(fs.scalar, sn))
           /\ \A z \in 1..NzTT :
                /\ IsQuotient(loadOut.profiles.UdotGradw[z],
                              TotalOver(fs.profiles, pn, "UdotGradw", z),
                              CountOver(fs.profiles, pn))
                /\ IsQuotient(loadOut.profiles.T1[z],
                              TotalOver(fs.profiles, pn, "T1", z),
                              CountOver(fs.profiles, pn))

C3_Witness ==
    /\ Returned
    /\ Len(loadOut.good_scalar_files) = 2
    /\ Len(loadOut.good_profile_files) = 2
    /\ Lz = 2
    /\ file_num(fs.scalar[1]) > file_num(fs.scalar[2])

\* C4: load_tt ends in an error whenever the chosen checkpoint directory,
\* scalar/ or profiles/ holds no *.h5 file.
C4_EmptyDirectoryFails ==
    (/\ Called
     /\ \/ ("final_checkpoint" \in fs.sub_dirs /\ fs.final_checkpoint = <<>>)
        \/ ("final_checkpoint" \notin fs.sub_dirs /\ fs.checkpoint = <<>>)
        \/ fs.scalar = <<>>
        \/ fs.profiles = <<>>)
    => loadOut.status = "error"

C4_Witness ==
    /\ loadOut.status = "error"
    /\ "final_checkpoint" \in fs.sub_dirs
    /\ fs.final_checkpoint = <<>>
    /\ fs.checkpoint # <<>>
    /\ fs.scalar # <<>>
    /\ fs.profiles # <<>>

\* C5: with at least one checkpoint, scalar and profile file, load_tt returns
\* a result for every avg_time >= 0: the newest file alone when avg_time is
\* below its span, all the files when their span never reaches avg_time.
C5_AlwaysReturns ==
    (/\ Called
     /\ checkpoint_list(fs) # <<>>
     /\ fs.scalar # <<>>
     /\ fs.profiles # <<>>)
    => /\ Returned
       /\ avg_time < SpanOf(fs.scalar, 1) => Len(loadOut.good_scalar_files) = 1
       /\ avg_time < SpanOf(fs.profiles, 1) => Len(loadOut.good_profile_files) = 1
       /\ SpanOf(fs.scalar, Len(fs.scalar)) < avg_time
            => Len(loadOut.good_scalar_files) = Len(fs.scalar)
       /\ SpanOf(fs.profiles, Len(fs.profiles)) < avg_time
            => Len(loadOut.good_profile_files) = Len(fs.profiles)


(***************************************************************************)
(* Atmospheres: IdealGasAtmosphere and Polytrope.                          *)
(*                                                                         *)
(* atmosphere_params is a class attribute: one dictionary for the class    *)
(* and all its instances.  A key that is absent is None, a key that is     *)
(* present holds Some(value).  The greek keys are spelled out: n_rho,      *)
(* epsilon, gamma, gradT, rho.                                             *)
(***************************************************************************)
ScalarKeys == {"n_rho", "epsilon", "m_ad", "m", "R", "gamma", "Cp", "Cv", "L", "gradT"}
function_fields == {"T", "rho", "P"}
FieldKeys == {"T_field", "rho_field", "ln_rho_field", "Tz_field", "ln_rhoz_field",
              "s_div_Cp", "delta_s_over_Cp"}
Keys == ScalarKeys \cup function_fields \cup FieldKeys

EmptyParams == [k \in Keys |-> None]

\* self[key] = value  (__setitem__ writes the class dictionary)
SetItem(params, key, value) == [params EXCEPT ![key] = Some(value)]

\* self[key]  (__getitem__ reads the class dictionary, whatever the instance)
GetItem(params, self, key) == params[key][1]

Gammas == {Rat(1, 2), Rat(1, 1), Rat(7, 5), Rat(5, 3)}
Epsilons == {Rat(1, 2), Rat(3, 2)}
NRhos == {RInt(1), RInt(3)}
GasConstants == {RInt(1), RInt(2)}
CtorArgs == [n_rho : NRhos, epsilon : Epsilons, gamma : Gammas, R : GasConstants]

\* (np.exp(x) - 1)/L, kept symbolic
ExpM1Over(x, L) == [exp_arg |-> x, L |-> L]

\* Polytrope._set_stratification (lines 40-45); -n_rho/m divides by zero
\* when m = 0.
set_stratification(params, self) ==
    LET p1 == SetItem(params, "L", RInt(1))
    IN IF RIsZero(GetItem(p1, self, "m")) THEN [raised |-> TRUE, params |-> p1]
       ELSE LET gradT == ExpM1Over(RDiv(RNeg(GetItem(p1, self, "n_rho")), GetItem(p1, self, "m")),
                                   GetItem(p1, self, "L"))
                p2 == SetItem(p1, "gradT", gradT)
                p3 == SetItem(p2, "T", [closure |-> self])
                p4 == SetItem(p3, "rho", [closure |-> self])
            IN [raised |-> FALSE, params |-> p4]

\* IdealGasAtmosphere.__init__, lines 58-61, for gamma # 1.  The chained
\* assignment of line 61 stores self['R'] under 'Cv' and then under 'Cp'.
thermodynamics(params, self, R, gamma) ==
    LET p1 == SetItem(params, "R", R)
        p2 == SetItem(p1, "gamma", gamma)
        p3 == SetItem(p2, "Cp", RDiv(RMul(R, gamma), RSub(gamma, RInt(1))))
        p4 == SetItem(p3, "Cv", GetItem(p3, self, "R"))
    IN SetItem(p4, "Cp", GetItem(p3, self, "R"))

\* IdealGasAtmosphere.__init__ (lines 45-64)
IdealGasAtmosphere_init(params, self, R, gamma) ==
    IF gamma = RInt(1)
    THEN [raised |-> TRUE, params |-> SetItem(SetItem(params, "R", R), "gamma", gamma)]
    ELSE LET strat == set_stratification(thermodynamics(params, self, R, gamma), self)
         IN IF strat.raised THEN strat
            ELSE [raised |-> FALSE, params |-> SetItem(strat.params, "P", [closure |-> self])]

\* Polytrope.__init__ (lines 23-38); 1/(gamma - 1) divides by zero when
\* gamma = 1.
Polytrope_init(params, self, args) ==
    LET p1 == SetItem(params, "n_rho", args.n_rho)
        p2 == SetItem(p1, "epsilon", args.epsilon)
    IN IF args.gamma = RInt(1) THEN [raised |-> TRUE, params |-> p2]
       ELSE LET p3 == SetItem(p2, "m_ad", RDiv(RInt(1), RSub(args.gamma, RInt(1))))
                p4 == SetItem(p3, "m", RSub(GetItem(p3, self, "m_ad"),
                                            GetItem(p3, self, "epsilon")))
            IN IdealGasAtmosphere_init(p4, self, args.R, args.gamma)

\* What a caller reads through the object self: the scalars, and what the
\* functions T, rho and P compute from the dictionary at the time of the call.
ReadThrough(params, self) ==
    [R |-> GetItem(params, self, "R"),
     gamma |-> GetItem(params, self, "gamma"),
     Cp |-> GetItem(params, self, "Cp"),
     Cv |-> GetItem(params, self, "Cv"),
     n_rho |-> GetItem(params, self, "n_rho"),
     epsilon |-> GetItem(params, self, "epsilon"),
     m_ad |-> GetItem(params, self, "m_ad"),
     m |-> GetItem(params, self, "m"),
     gradT |-> GetItem(params, self, "gradT"),
     T |-> [z |-> "z", one_plus_z_times |-> GetItem(params, self, "gradT")],
     rho |-> [T_gradT |-> GetItem(params, self, "gradT"), power |-> GetItem(params, self, "m")],
     P |-> [R |-> GetItem(params, self, "R"), T_gradT |-> GetItem(params, self, "gradT"),
            power |-> GetItem(params, self, "m")]]

NoCtor == [status |-> "none", args |-> [n_rho |-> RInt(0), epsilon |-> RInt(0),
                                        gamma |-> RInt(0), R |-> RInt(0)]]

InitAtmo ==
    /\ atmosphere_params = EmptyParams
    /\ instances = <<>>
    /\ ctor = NoCtor
    /\ problem = None

\* atmosphere = Polytrope(n_rho, epsilon, gamma, R=R)
Construct(args) ==
    /\ Len(instances) < MaxInstances
    /\ LET self == Len(instances) + 1
           out == Polytrope_init(atmosphere_params, self, args)
       IN /\ atmosphere_params' = out.params
          /\ IF out.raised
             THEN /\ ctor' = [status |-> "error", args |-> args]
                  /\ instances' = instances
             ELSE /\ ctor' = [status |-> "ok", args |-> args]
                  /\ instances' = Append(instances,
                                         [args |-> args, seen |-> ReadThrough(out.params, self)])
    /\ UNCHANGED <<problem, varsLoad, varsRescale, varsPrelim>>

\* NCC(domain, profile): a field of the domain holding the profile
NCC(domain, profile) == [domain |-> domain, data |-> profile]

\* atmosphere.build_atmosphere(domain, problem, delta_s_bounds) on the object
\* self (lines 93-118); with delta_s_bounds given, line 111 raises NameError
\* (basis is not defined) before the parameters are copied.
build_fields(params, self, domain) ==
    LET r == ReadThrough(params, self)
        p1 == SetItem(params, "T_field", NCC(domain, <<"T", r.T>>))
        p2 == SetItem(p1, "rho_field", NCC(domain, <<"rho", r.rho>>))
        p3 == SetItem(p2, "ln_rho_field", NCC(domain, <<"log rho", r.rho>>))
        p4 == SetItem(p3, "Tz_field", NCC(domain, <<"dz T", r.T>>))
        p5 == SetItem(p4, "ln_rhoz_field", NCC(domain, <<"dz log rho", r.rho>>))
    IN SetItem(p5, "s_div_Cp", NCC(domain, <<"s/Cp", r.gamma, r.T, r.rho>>))

BuildAtmosphere(self, domain, delta_s_bounds) ==
    /\ self \in 1..Len(instances)
    /\ LET p1 == build_fields(atmosphere_params, self, domain)
       IN IF delta_s_bounds
          THEN /\ atmosphere_params' = p1
               /\ problem' = problem
          ELSE /\ atmosphere_params' =
                    SetItem(p1, "delta_s_over_Cp", <<"integral", GetItem(p1, self, "s_div_Cp")>>)
               /\ problem' = Some([k \in Keys \ function_fields |-> atmosphere_params'[k]])
    /\ UNCHANGED <<instances, ctor, varsLoad, varsRescale, varsPrelim>>

NextAtmo ==
    \/ \E args \in CtorArgs : Construct(args)
    \/ \E self \in 1..MaxInstances, domain \in {"ivp", "bvp"}, b \in BOOLEAN :
          BuildAtmosphere(self, domain, b)

(***************************************************************************)
(* Properties of the atmospheres.                                          *)
(***************************************************************************)
\* C6: constructing a Polytrope with gamma <= 1 fails with an error.
C6_NonPhysicalGammaRejected ==
    (ctor.status # "none" /\ RLeq(ctor.args.gamma, RInt(1))) => ctor.status = "error"

\* C7: after construction with gamma > 1, Cp = R*gamma/(gamma-1), Cp = gamma*Cv
\* and m = 1/(gamma-1) - epsilon.
C7_DerivedScalarsConsistent ==
    (ctor.status = "ok" /\ RLess(RInt(1), ctor.args.gamma)) =>
        LET seen == instances[Len(instances)].seen
            g == ctor.args.gamma
        IN /\ seen.Cp = RDiv(RMul(ctor.args.R, g), RSub(g, RInt(1)))
           /\ seen.Cp = RMul(g, seen.Cv)
           /\ seen.m = RSub(RDiv(RInt(1), RSub(g, RInt(1))), ctor.args.epsilon)

\* C8: the values read through a constructed atmosphere never change.
C8_InstanceImmutable ==
    \A self \in 1..Len(instances) :
        ReadThrough(atmosphere_params, self) = instances[self].seen


(***************************************************************************)
(* The domain of CartesianBoxCF and the state rescaler tt_to_ft.           *)
(*                                                                         *)
(* A field is its grid data [<<x, z>> |-> value] on the x grid 1..Nx and   *)
(* the z points of the local slice.  set_scales(.., keep_data=True) is a   *)
(* spectral resampling that keeps the function the data stand for, and the *)
(* operations applied in between are pointwise or constant in x, so the    *)
(* data are kept at scales 1 throughout.                                   *)
(***************************************************************************)
\* CartesianBoxCF.__init__ (lines 35-41) for basis_names = ('x', 'z')
CartesianBoxCF(resolution, height, aspect) ==
    [bases |-> <<[name |-> "x", kind |-> "Fourier", resolution |-> resolution[1],
                  interval |-> <<RNeg(RDiv(RMul(height, aspect), RInt(2))),
                                 RDiv(RMul(height, aspect), RInt(2))>>],
                 [name |-> "z", kind |-> "Chebyshev", resolution |-> resolution[2],
                  interval |-> <<RInt(0), height>>]>>]

ZSlices == {sl \in (1..NzTT) \X (1..NzTT) : sl[1] <= sl[2]}
LocalGrid(sl) == (1..Nx) \X (sl[1]..sl[2])

RECURSIVE RSum(_, _)
RSum(f, S) ==
    IF S = {} THEN RInt(0)
    ELSE LET x == CHOOSE y \in S : TRUE IN RAdd(f[x], RSum(f, S \ {x}))

\* field.integrate('x')['g'] on a Fourier basis: the length of the interval
\* times the mean of the grid values along x, at every z.
integrate_x(field, sl, basis) ==
    LET length == RSub(basis.interval[2], basis.interval[1])
    IN [z \in sl[1]..sl[2] |->
          RMul(length, RDiv(RSum([x \in 1..Nx |-> field[<<x, z>>]], 1..Nx), RInt(Nx)))]

ISqrt(k) == CHOOSE r \in 0..k : r * r = k
\* np.sqrt, on the squares of rationals
np_sqrt(q) == Rat(ISqrt(q.n), ISqrt(q.d))

\* T1['g'] -= T1.integrate('x')['g']/solver.domain.bases[0].interval[-1]
remove_mean(T1, sl, domain) ==
    LET integral == integrate_x(T1, sl, domain.bases[1])
    IN [p \in LocalGrid(sl) |-> RSub(T1[p], RDiv(integral[p[2]], domain.bases[1].interval[2]))]

\* field['g'] *= factor
scale_field(field, factor) == [p \in DOMAIN field |-> RMul(field[p], factor)]

\* field['g'] += profile[z_slice]
add_profile(field, profile) == [p \in DOMAIN field |-> RAdd(field[p], profile[p[2]])]

\* field.differentiate('z', out=...): the z derivative of the data given
differentiate_z(field) == [dz_of |-> field]

Heights == {RInt(1)}
Aspects == {RInt(2), RInt(4)}
Factors_dS == {Rat(1, 4), RInt(1), RInt(4)}
Factors_dT == {RInt(1), RInt(2)}
Timesteps == {Rat(1, 2), RInt(3)}

\* the content of a checkpoint file, on the local grid of the process
CheckpointData(row, lr, step, sl) ==
    [T1 |-> [p \in LocalGrid(sl) |-> RInt(row[p[1]] + p[2] - 1)],
     ln_rho1 |-> [p \in LocalGrid(sl) |-> RInt(lr * p[1])],
     u |-> [p \in LocalGrid(sl) |-> RInt(p[1] + p[2] - 1)],
     w |-> [p \in LocalGrid(sl) |-> RInt(-p[1])],
     dt |-> step]

NoField == [dz_of |-> <<>>]
EmptyState == [T1 |-> <<>>, T1_z |-> NoField, ln_rho1 |-> <<>>,
               u |-> <<>>, w |-> <<>>, u_z |-> NoField, w_z |-> NoField]

InitRescale ==
    /\ \E row \in [1..Nx -> {0, 1}], lr \in {0, 1}, step \in Timesteps, sl \in ZSlices,
          T1_FT \in [1..NzTT -> {RInt(0), RInt(1)}], c \in {0, 1},
          dS_factor \in Factors_dS, dT_ad_factor \in Factors_dT,
          height \in Heights, aspect \in Aspects :
          rescaleIn = [checkpoint |-> CheckpointData(row, lr, step, sl),
                       z_slice |-> sl,
                       domain |-> CartesianBoxCF(<<Nx, NzTT>>, height, aspect),
                       T1_FT |-> T1_FT,
                       ln_rho1_FT |-> [z \in 1..NzTT |-> RInt(c + z)],
                       dS_factor |-> dS_factor,
                       dT_ad_factor |-> dT_ad_factor]
    /\ state = EmptyState
    /\ dt = RInt(0)
    /\ rpc = "restart"

\* dt = checkpoint.restart(checkpoint_TT, solver)  (line 244)
Restart ==
    /\ rpc = "restart"
    /\ state' = [state EXCEPT !.T1 = rescaleIn.checkpoint.T1,
                              !.ln_rho1 = rescaleIn.checkpoint.ln_rho1,
                              !.u = rescaleIn.checkpoint.u,
                              !.w = rescaleIn.checkpoint.w]
    /\ dt' = rescaleIn.checkpoint.dt
    /\ rpc' = "T1"
    /\ UNCHANGED <<rescaleIn, varsLoad, varsAtmo, varsPrelim>>

\* lines 257-264
RescaleT1 ==
    /\ rpc = "T1"
    /\ LET fluc == scale_field(remove_mean(state.T1, rescaleIn.z_slice, rescaleIn.domain),
                               rescaleIn.dT_ad_factor)
           T1 == add_profile(fluc, rescaleIn.T1_FT)
       IN state' = [state EXCEPT !.T1 = T1, !.T1_z = differentiate_z(T1)]
    /\ rpc' = "ln_rho1"
    /\ UNCHANGED <<rescaleIn, dt, varsLoad, varsAtmo, varsPrelim>>

\* A variant that adds the profile to the loaded data (no "*= 0", "+=").
set_ln_rho1_add(ln_rho1, ln_rho1_FT) == add_profile(ln_rho1, ln_rho1_FT)

\* ln_rho1['g'] *= 0; ln_rho1['g'] = ln_rho1_FT[z_slice]  (lines 270-272)
set_ln_rho1(ln_rho1, ln_rho1_FT) ==
    LET zeroed == scale_field(ln_rho1, RInt(0))
    IN [p \in DOMAIN zeroed |-> ln_rho1_FT[p[2]]]

\* lines 270-272
RescaleLnRho1 ==
    /\ rpc = "ln_rho1"
    /\ state' = [state EXCEPT !.ln_rho1 = set_ln_rho1(state.ln_rho1, rescaleIn.ln_rho1_FT)]
    /\ rpc' = "velocity"
    /\ UNCHANGED <<rescaleIn, dt, varsLoad, varsAtmo, varsPrelim>>

\* A variant that scales by dS_factor instead of its square root.
scale_velocity_linear(field, dS_factor) == scale_field(field, dS_factor)

\* u['g'] *= np.sqrt(dS_factor)
scale_velocity(field, dS_factor) == scale_field(field, np_sqrt(dS_factor))

\* lines 274-277
RescaleVelocity ==
    /\ rpc = "velocity"
    /\ LET u == scale_velocity(state.u, rescaleIn.dS_factor)
           w == scale_velocity(state.w, rescaleIn.dS_factor)
       IN state' = [state EXCEPT !.u = u, !.w = w,
                                 !.u_z = differentiate_z(u), !.w_z = differentiate_z(w)]
    /\ rpc' = "timestep"
    /\ UNCHANGED <<rescaleIn, dt, varsLoad, varsAtmo, varsPrelim>>

\* lines 279-281
RescaleTimestep ==
    /\ rpc = "timestep"
    /\ dt' = RDiv(dt, np_sqrt(rescaleIn.dS_factor))
    /\ rpc' = "returned"
    /\ UNCHANGED <<rescaleIn, state, varsLoad, varsAtmo, varsPrelim>>

NextRescale ==
    \/ Restart
    \/ RescaleT1
    \/ RescaleLnRho1
    \/ RescaleVelocity
    \/ RescaleTimestep

(***************************************************************************)
(* structure_bvp and tt_to_ft_preliminaries over the ranks of              *)
(* MPI.COMM_WORLD.  Ranks are 0..NProcs-1; rank 0 is the root.             *)
(*                                                                         *)
(* The Dedalus solver is outside the repository: what a newton_iteration   *)
(* leaves in the solver (the norm of the perturbations, dS, ln_rho1) is    *)
(* drawn from small sets.  The norm is a float counted in units of tol:    *)
(* a solve that converges, one that stays above tol, and one that turns    *)
(* the solver's data into nan (log of a negative temperature, overflow of  *)
(* exp(ln_rho1), a singular Jacobian).                                     *)
(***************************************************************************)
Ranks == 0..(NProcs - 1)

\* The atmosphere handed to tt_to_ft_preliminaries and what structure_bvp
\* measures on its fields.  tt_to_ft.py reads attributes of the object
\* (atmosphere.Lz, .Cp, .g, .T0, ...); the classes of atmosphere_base.py and
\* polytrope.py keep their parameters in a dictionary and have no such
\* attributes, so with them atmosphere.Lz raises AttributeError.
AtmosphereData ==
    {[Lz |-> 1, Cp |-> RInt(2), g |-> RInt(2), dS0 |-> RInt(-1),
      T0 |-> [z \in 1..NzTT |-> RInt(3 - z)], z |-> [z \in 1..NzTT |-> Rat(z, NzTT + 1)],
      T_TT_top |-> RInt(-3), T_TT_bottom |-> RInt(0)],
     [Lz |-> 2, Cp |-> RInt(1), g |-> RInt(1), dS0 |-> RInt(-2),
      T0 |-> [z \in 1..NzTT |-> RInt(4 - z)], z |-> [z \in 1..NzTT |-> Rat(2 * z, NzTT + 1)],
      T_TT_top |-> RInt(0), T_TT_bottom |-> RInt(5)]}

PrelimAtmospheres ==
    {[attributes |-> TRUE, data |-> a] : a \in AtmosphereData}
    \cup {[attributes |-> FALSE, data |-> CHOOSE a \in AtmosphereData : a.Lz = 1]}

PrelimDirectories ==
    {Directory(9, TRUE, <<2, 1>>, <<1, 2>>, TRUE, 2, 2),
     Directory(1, FALSE, <<1>>, <<2>>, FALSE, 0, 2),
     Directory(1, FALSE, <<>>, <<1>>, FALSE, 0, 2),
     Directory(1, FALSE, <<1, 1>>, <<1>>, FALSE, 0, 2)}

PrelimTimes == {0, 2}

NewtonIdle == [pert |-> RInt(0), dS |-> RInt(0), ln_rho1 |-> <<>>, iterations |-> 0]
PertFilled == RInt(3)   \* pert.fill(1 + tol): a norm above tol
SolverStates ==
    [pert : {RInt(0), RInt(1), RInt(2)}, dS : {RInt(-1), Rat(-1, 2)},
     ln_rho1 : {[z \in 1..NzTT |-> RInt(0)], [z \in 1..NzTT |-> Rat(z, 4)]}]
    \cup {[pert |-> NaN, dS |-> NaN, ln_rho1 |-> [z \in 1..NzTT |-> NaN]]}

\* np.sum(np.abs(pert)) > tol  (line 176)
norm_above_tol(pert) == RLess(RInt(1), pert)

RAbs(q) == [n |-> Abs(q.n), d |-> q.d]

\* dT_ad_TT, lines 135-145: the superadiabatic temperature jump of the
\* time-averaged state
dT_ad_TT_of(atmosphere, profiles) ==
    LET grad_ad == RNeg(RDiv(atmosphere.g, atmosphere.Cp))
    IN RSub(RAbs(RSub(RAdd(atmosphere.T_TT_top, profiles.T1[NzTT]),
                      RAdd(atmosphere.T_TT_bottom, profiles.T1[1]))),
            RAbs(RMul(grad_ad, RInt(atmosphere.Lz))))

\* A variant of structure_bvp whose evolved_Ra_factor uses the entropy jump
\* as read from the scalar file, before it is multiplied by Cp.
structure_bvp_raw_dS(atmosphere, profiles, scalars, dS, ln_rho1) ==
    LET dS_TT == RMul(scalars.s_over_cp_z, atmosphere.Cp)
        Nu == scalars.Nu
        T1_TT == profiles.T1
        grad_ad == RNeg(RDiv(atmosphere.g, atmosphere.Cp))
        T_TT == [z \in 1..NzTT |-> RAdd(atmosphere.T0[z], T1_TT[z])]
        T_ad == [z \in 1..NzTT |->
                    RAdd(RInt(1), RMul(grad_ad, RSub(atmosphere.z[z], RInt(atmosphere.Lz))))]
        dT_ad_TT == dT_ad_TT_of(atmosphere, profiles)
        dT_ad_FT == RDiv(dT_ad_TT, Nu)
        T1_FT == [z \in 1..NzTT |->
                    RSub(RAdd(RMul(dT_ad_FT, RDiv(RSub(T_TT[z], T_ad[z]), dT_ad_TT)), T_ad[z]),
                         atmosphere.T0[z])]
        dS0 == atmosphere.dS0
        evolved_Ra_factor == RDiv(scalars.s_over_cp_z, dS0)
        dS_FT == dS
        FT_Ra_factor == RMul(RDiv(dS0, dS_FT), evolved_Ra_factor)
    IN <<T1_FT, ln_rho1, RDiv(dS_FT, dS_TT), RDiv(dT_ad_FT, dT_ad_TT), FT_Ra_factor>>

\* structure_bvp, lines 119-153 and 180-183: the values returned once the
\* solver holds dS and ln_rho1.
structure_bvp(atmosphere, profiles, scalars, dS, ln_rho1) ==
    LET dS_TT == RMul(scalars.s_over_cp_z, atmosphere.Cp)
        Nu == scalars.Nu
        T1_TT == profiles.T1
        grad_ad == RNeg(RDiv(atmosphere.g, atmosphere.Cp))
        T_TT == [z \in 1..NzTT |-> RAdd(atmosphere.T0[z], T1_TT[z])]
        T_ad == [z \in 1..NzTT |->
                    RAdd(RInt(1), RMul(grad_ad, RSub(atmosphere.z[z], RInt(atmosphere.Lz))))]
        dT_ad_TT == dT_ad_TT_of(atmosphere, profiles)
        dT_ad_FT == RDiv(dT_ad_TT, Nu)
        T1_FT == [z \in 1..NzTT |->
                    RSub(RAdd(RMul(dT_ad_FT, RDiv(RSub(T_TT[z], T_ad[z]), dT_ad_TT)), T_ad[z]),
                         atmosphere.T0[z])]
        dS0 == atmosphere.dS0
        evolved_Ra_factor == RDiv(dS_TT, dS0)
        dS_FT == dS
        FT_Ra_factor == RMul(RDiv(dS0, dS_FT), evolved_Ra_factor)
    IN <<T1_FT, ln_rho1, RDiv(dS_FT, dS_TT), RDiv(dT_ad_FT, dT_ad_TT), FT_Ra_factor>>

\* A variant of bcast in which every rank keeps its own object.
bcast_keep_local(rank, obj, sent) == obj

\* comm.bcast(obj, root=0): the object of the root, on every rank
bcast(rank, obj, sent) == IF rank = 0 THEN obj ELSE sent

InitPrelim ==
    /\ prelimIn \in [atmosphere : PrelimAtmospheres, path : PrelimDirectories,
                     time : PrelimTimes]
    /\ ppc = [r \in Ranks |-> "start"]
    /\ plocal = [r \in Ranks |-> [k \in 1..6 |-> None]]
    /\ published = [k \in 1..6 |-> None]
    /\ calls = [r \in Ranks |-> [load_tt |-> 0, structure_bvp |-> 0]]
    /\ obtained = [k \in 1..6 |-> None]
    /\ loaded = None
    /\ newton = NewtonIdle

\* lines 203-205 on rank 0: atmosphere.Lz is read and load_tt is called,
\* which returns or raises
RootLoad ==
    /\ ppc[0] = "start"
    /\ IF ~prelimIn.atmosphere.attributes
       THEN /\ ppc' = [ppc EXCEPT ![0] = "raised"]
            /\ UNCHANGED <<plocal, obtained, loaded, calls>>
       ELSE LET out == load_tt(prelimIn.path, prelimIn.time, prelimIn.atmosphere.data.Lz)
            IN /\ calls' = [calls EXCEPT ![0].load_tt = @ + 1]
               /\ IF out.status = "ok"
                  THEN /\ plocal' = [plocal EXCEPT ![0][1] = Some(out.checkpoint_TT)]
                       /\ obtained' = [obtained EXCEPT ![1] = Some(out.checkpoint_TT)]
                       /\ loaded' = Some([profiles |-> out.profiles, scalars |-> out.scalars])
                       /\ ppc' = [ppc EXCEPT ![0] = "structure_bvp"]
                  ELSE /\ ppc' = [ppc EXCEPT ![0] = "raised"]
                       /\ UNCHANGED <<plocal, obtained, loaded>>
    /\ UNCHANGED <<prelimIn, published, newton, varsLoad, varsAtmo, varsRescale>>

\* line 208 and lines 119-175: structure_bvp is entered, the problem is set up
\* and the perturbations are filled with 1 + tol
RootBvpSetup ==
    /\ ppc[0] = "structure_bvp"
    /\ calls' = [calls EXCEPT ![0].structure_bvp = @ + 1]
    /\ newton' = [pert |-> PertFilled, dS |-> RInt(0),
                  ln_rho1 |-> [z \in 1..NzTT |-> RInt(0)], iterations |-> 0]
    /\ ppc' = [ppc EXCEPT ![0] = "newton"]
    /\ UNCHANGED <<prelimIn, plocal, published, obtained, loaded, varsLoad, varsAtmo, varsRescale>>

\* lines 176-178: one pass of the while loop
RootNewtonIteration ==
    /\ ppc[0] = "newton"
    /\ norm_above_tol(newton.pert)
    /\ \E sol \in SolverStates :
          newton' = [pert |-> sol.pert, dS |-> sol.dS, ln_rho1 |-> sol.ln_rho1,
                     iterations |-> IF newton.iterations < MaxNewton
                                    THEN newton.iterations + 1 ELSE newton.iterations]
    /\ UNCHANGED <<prelimIn, ppc, plocal, published, calls, obtained, loaded,
                   varsLoad, varsAtmo, varsRescale>>

\* lines 176, 180-183: the loop is left and structure_bvp returns
RootBvpReturn ==
    /\ ppc[0] = "newton"
    /\ ~norm_above_tol(newton.pert)
    /\ LET ret == structure_bvp(prelimIn.atmosphere.data, loaded[1].profiles, loaded[1].scalars,
                                newton.dS, newton.ln_rho1)
       IN /\ plocal' = [plocal EXCEPT ![0] =
                          [k \in 1..6 |-> IF k = 1 THEN @[1] ELSE Some(ret[k - 1])]]
          /\ obtained' = [k \in 1..6 |-> IF k = 1 THEN obtained[1] ELSE Some(ret[k - 1])]
    /\ ppc' = [ppc EXCEPT ![0] = "bcast1"]
    /\ UNCHANGED <<prelimIn, published, calls, loaded, newton, varsLoad, varsAtmo, varsRescale>>

\* line 210 on the other ranks: six None placeholders
Placeholders(r) ==
    /\ r # 0
    /\ ppc[r] = "start"
    /\ plocal' = [plocal EXCEPT ![r] = [k \in 1..6 |-> None]]
    /\ ppc' = [ppc EXCEPT ![r] = "bcast1"]
    /\ UNCHANGED <<prelimIn, published, calls, obtained, loaded, newton,
                   varsLoad, varsAtmo, varsRescale>>

BcastPc(k) == <<"bcast1", "bcast2", "bcast3", "bcast4", "bcast5", "bcast6", "returned">>[k]

\* lines 212-217: the k-th broadcast on rank r.  The root sends its object;
\* another rank waits for the object of the root.
Bcast(r, k) ==
    /\ ppc[r] = BcastPc(k)
    /\ r # 0 => published[k] # None
    /\ published' = IF r = 0 THEN [published EXCEPT ![k] = plocal[0][k]] ELSE published
    /\ plocal' = [plocal EXCEPT ![r][k] = bcast(r, plocal[r][k], published[k])]
    /\ ppc' = [ppc EXCEPT ![r] = BcastPc(k + 1)]
    /\ UNCHANGED <<prelimIn, calls, obtained, loaded, newton, varsLoad, varsAtmo, varsRescale>>

NextPrelim ==
    \/ RootLoad
    \/ RootBvpSetup
    \/ RootNewtonIteration
    \/ RootBvpReturn
    \/ \E r \in Ranks : Placeholders(r)
    \/ \E r \in Ranks, k \in 1..6 : Bcast(r, k)

(***************************************************************************)
(* Specifications.  Each one runs one part and leaves the others at rest.  *)
(***************************************************************************)
IdleLoad ==
    /\ fs = Directory(1, FALSE, <<>>, <<>>, FALSE, 0, 0)
    /\ avg_time = 0
    /\ Lz = 1
    /\ loadOut = LoadPending

IdleRescale ==
    /\ rescaleIn = <<>>
    /\ state = EmptyState
    /\ dt = RInt(0)
    /\ rpc = "idle"

IdlePrelim ==
    /\ prelimIn = <<>>
    /\ ppc = <<>>
    /\ plocal = <<>>
    /\ published = <<>>
    /\ calls = <<>>
    /\ obtained = <<>>
    /\ loaded = None
    /\ newton = NewtonIdle

StartLoad == InitLoad /\ InitAtmo /\ IdleRescale /\ IdlePrelim
StartAtmosphere == IdleLoad /\ InitAtmo /\ IdleRescale /\ IdlePrelim
StartRescale == IdleLoad /\ InitAtmo /\ InitRescale /\ IdlePrelim
StartPrelim == IdleLoad /\ InitAtmo /\ IdleRescale /\ InitPrelim

SpecLoad == StartLoad /\ [][NextLoad]_vars

SpecAtmosphere == StartAtmosphere /\ [][NextAtmo]_vars

SpecRescale == StartRescale /\ [][NextRescale]_vars

SpecPrelim == StartPrelim /\ [][NextPrelim]_vars

(***************************************************************************)
(* Properties of tt_to_ft.                                                 *)
(***************************************************************************)
Loaded == rescaleIn.checkpoint
HorizontalMean(field, z) == RDiv(RSum([x \in 1..Nx |-> field[<<x, z>>]], 1..Nx), RInt(Nx))

\* C9: the local T1 is dT_ad_factor*(T1_loaded - horizontal mean of
\* T1_loaded) + T1_FT[z_slice], so its horizontal mean is T1_FT.
C9_MeanRemovedOnce ==
    rpc \in {"ln_rho1", "velocity", "timestep", "returned"} =>
        /\ \A p \in DOMAIN state.T1 :
             state.T1[p] = RAdd(RMul(rescaleIn.dT_ad_factor,
                                     RSub(Loaded.T1[p], HorizontalMean(Loaded.T1, p[2]))),
                                rescaleIn.T1_FT[p[2]])
        /\ \A z \in rescaleIn.z_slice[1]..rescaleIn.z_slice[2] :
             HorizontalMean(state.T1, z) = rescaleIn.T1_FT[z]

\* C10: u and w are multiplied by sqrt(dS_factor) once and the returned dt is
\* the restart dt over sqrt(dS_factor), so velocity times dt is preserved.
C10_VelocityTimestepProduct ==
    rpc = "returned" =>
        /\ \A p \in DOMAIN state.u :
             /\ RMul(state.u[p], state.u[p])
                  = RMul(rescaleIn.dS_factor, RMul(Loaded.u[p], Loaded.u[p]))
             /\ RMul(state.w[p], state.w[p])
                  = RMul(rescaleIn.dS_factor, RMul(Loaded.w[p], Loaded.w[p]))
             /\ RLeq(RInt(0), RMul(state.u[p], Loaded.u[p]))
             /\ RLeq(RInt(0), RMul(state.w[p], Loaded.w[p]))
             /\ RMul(state.u[p], dt) = RMul(Loaded.u[p], Loaded.dt)
             /\ RMul(state.w[p], dt) = RMul(Loaded.w[p], Loaded.dt)
        /\ RMul(RMul(dt, dt), rescaleIn.dS_factor) = RMul(Loaded.dt, Loaded.dt)
        /\ rescaleIn.dS_factor = RInt(1) =>
             (state.u = Loaded.u /\ state.w = Loaded.w /\ dt = Loaded.dt)

C10_Witness ==
    /\ rpc = "returned"
    /\ rescaleIn.dS_factor = RInt(4)
    /\ rescaleIn.z_slice[1] < rescaleIn.z_slice[2]
    /\ dt # Loaded.dt

\* C11: after tt_to_ft the local ln_rho1 is ln_rho1_FT on the z slice of the
\* process, whatever ln_rho1 (and T1) the checkpoint held.
C11_LnRho1Overwritten ==
    rpc \in {"velocity", "timestep", "returned"} =>
        /\ DOMAIN state.ln_rho1 = LocalGrid(rescaleIn.z_slice)
        /\ \A p \in LocalGrid(rescaleIn.z_slice) :
             state.ln_rho1[p] = rescaleIn.ln_rho1_FT[p[2]]

C11_Witness ==
    /\ rpc = "returned"
    /\ \E p \in DOMAIN Loaded.ln_rho1 :
          /\ ~RIsZero(Loaded.ln_rho1[p])
          /\ Loaded.ln_rho1[p] # rescaleIn.ln_rho1_FT[p[2]]
    /\ \E p \in DOMAIN Loaded.T1 : Loaded.T1[p] # state.T1[p]

(***************************************************************************)
(* Properties of tt_to_ft_preliminaries.                                   *)
(***************************************************************************)
\* C1: every rank that returns holds the six values rank 0 obtained from its
\* single call of load_tt and of structure_bvp, none of them None; no other
\* rank calls load_tt or structure_bvp.
C1_AllRanksReturnRootValues ==
    /\ \A r \in Ranks :
         ppc[r] = "returned" =>
            /\ plocal[r] = obtained
            /\ \A k \in 1..6 : plocal[r][k] # None
            /\ calls[0] = [load_tt |-> 1, structure_bvp |-> 1]
    /\ \A r \in Ranks \ {0} : calls[r] = [load_tt |-> 0, structure_bvp |-> 0]
    /\ calls[0].load_tt <= 1 /\ calls[0].structure_bvp <= 1

C1_Witness == \A r \in Ranks : ppc[r] = "returned"

\* Rank 0 has left the Newton loop and structure_bvp has returned.
BvpReturned == ppc[0] \in {BcastPc(k) : k \in 1..7}

\* The solve has converged: the norm of the perturbations is at most tol.
Converged == RLeq(newton.pert, RInt(1))

\* C12: the Newton loop runs at least one newton_iteration; structure_bvp
\* returns only from a state whose perturbation norm is <= tol; there is no
\* iteration cap, so while the norm is above tol another iteration is the only
\* way on, and structure_bvp raises nothing.
C12_ReturnsOnlyConverged ==
    /\ BvpReturned => newton.iterations >= 1 /\ Converged
    /\ (ppc[0] = "newton" /\ ~Converged) => ENABLED RootNewtonIteration
    /\ ppc[0] = "raised" => calls[0].structure_bvp = 0

\* C13: no rank returns from tt_to_ft_preliminaries before rank 0 has
\* completed load_tt and structure_bvp; if the solve of rank 0 has not
\* converged no rank has returned; a rank other than 0 cannot leave a
\* broadcast whose object rank 0 has not sent.
C13_BroadcastBarrier ==
    /\ \A r \in Ranks :
          ppc[r] = "returned" =>
             /\ calls[0].load_tt = 1 /\ calls[0].structure_bvp = 1
             /\ BvpReturned
             /\ \A k \in 1..6 : obtained[k] # None
             /\ Converged
    /\ \A r \in Ranks \ {0}, k \in 1..6 :
          (ppc[r] = BcastPc(k) /\ published[k] = None) => ~ENABLED Bcast(r, k)

\* C14: for a converged solve with dT_ad_TT, dS0, dS_TT and dS_FT non-zero, the
\* returned temperature-jump ratio is 1/Nu and the returned FT_Ra_factor times
\* the returned dS_FT/dS_TT is 1, whatever dS0 and the temperature profiles.
NonZero(q) == q.d # 0 /\ q.n # 0

C14_Applies ==
    /\ BvpReturned
    /\ Converged
    /\ NonZero(dT_ad_TT_of(prelimIn.atmosphere.data, loaded[1].profiles))
    /\ NonZero(prelimIn.atmosphere.data.dS0)
    /\ NonZero(RMul(loaded[1].scalars.s_over_cp_z, prelimIn.atmosphere.data.Cp))
    /\ NonZero(newton.dS)

C14_FactorsTied ==
    C14_Applies =>
        /\ obtained[5][1] = RDiv(RInt(1), loaded[1].scalars.Nu)
        /\ RMul(obtained[6][1], obtained[4][1]) = RInt(1)

C14_Witness ==
    /\ C14_Applies
    /\ ppc[0] = "returned"
    /\ prelimIn.atmosphere.data.Cp # RInt(1)
    /\ NonZero(loaded[1].scalars.Nu)
    /\ obtained[5][1] # RInt(1)
    /\ obtained[6][1] # RInt(1)

====
